---- MODULE Spec2Model ----
(***************************************************************************)
(* A model of report/htmlreportcreator.py (class HTMLReportCreator).       *)
(*                                                                         *)
(* Four specifications share the module's variables:                       *)
(*   Spec         create(): the artifact pipeline, run after run on one    *)
(*                output path                                              *)
(*   SpecAuthors  _squash_authors_history and the partition of the ranked  *)
(*                author list in render_authors_page                       *)
(*   SpecHeatmap  the to_heatmap template filter                           *)
(*   SpecTags     the tag list of render_tags_page                         *)
(* Each specification draws its inputs in its Init and leaves the other    *)
(* specifications' variables at their idle values.                         *)
(***************************************************************************)
EXTENDS Integers, Sequences, FiniteSets, TLC

\* ------------------------------------------------------------------ bounds
MaxAuthors == 3
MaxWeeks == 2
MaxColors == 3
MaxCommits == 4
MaxTags == 3
MaxDate == 2
MaxRuns == 2
MaxYear == 2
MaxScripts == 2

\* the values one cell of a weekly history takes
Counts == {0, 1}

\* the contributor names, in the rank the statistics model gives them; one
\* contributor carries the name the rollup uses for its synthetic column
RankedNames == <<"alice", "Others", "bob", "carl">>

VARIABLES
    \* --- SpecAuthors
    authors,            \* git_repository_statistics.authors.sort(...).names()
    authors_history,    \* DataFrame: column name -> weekly values
    weeks,              \* number of rows of authors_history
    max_authors,        \* configuration['max_authors']
    squashed,           \* what _squash_authors_history returned
    authors_page,       \* project_data of render_authors_page
    \* --- SpecHeatmap
    colors,             \* colormaps.colormaps[configuration['colormap']]
    val,                \* the filter's arguments
    max_val,
    fp_rounds_down,     \* whether the float product falls below an exact integer
    heat,               \* what the filter returned, or the exception it raised
    \* --- SpecTags
    tags,               \* git_repo_statistics.tags, in the dictionary's order
    tags_configuration, \* the configuration keys render_tags_page reads
    tags_page,          \* project_data of render_tags_page
    \* --- Spec
    relocatable,        \* configuration.is_report_relocatable()
    has_tags_page,      \* configuration.do_process_tags()
    commit_years,       \* the statistics model: the years that have commits
    year,               \* the calendar year of the clock
    fs,                 \* the output path: name -> what is there
    assets_path,        \* self.assets_path
    pc,                 \* the step create() is at
    status,             \* running, done (create() returned) or raised
    run,                \* the number of this run on the output path
    trace,              \* the steps of this run that have completed
    written,            \* the names this run has created or overwritten
    charts,             \* the chart scripts invoked in this run, with their outcome
    before,             \* the output path, outcome and year when this run began
    called              \* the functions that have run

authorsVars == <<authors, authors_history, weeks, max_authors, squashed, authors_page>>
heatVars == <<colors, val, max_val, fp_rounds_down, heat>>
tagsVars == <<tags, tags_configuration, tags_page>>
configVars == <<relocatable, has_tags_page, commit_years>>
runVars == <<year, fs, assets_path, pc, status, run, trace, written, charts, before>>
pipeVars == <<configVars, runVars>>

\* ----------------------------------------------------------------- helpers
Min(a, b) == IF a < b THEN a ELSE b
Max(a, b) == IF a > b THEN a ELSE b

Range(s) == {s[i] : i \in DOMAIN s}

\* the elements of s at the positions in S, in order
RECURSIVE Pick(_, _, _)
Pick(s, S, i) ==
    IF i > Len(s) THEN <<>>
    ELSE (IF i \in S THEN <<s[i]>> ELSE <<>>) \o Pick(s, S, i + 1)

RECURSIVE SumSeq(_)
SumSeq(s) == IF s = <<>> THEN 0 ELSE s[1] + SumSeq(Tail(s))

\* Python's s[:k]
PySliceTo(s, k) ==
    LET stop == IF k < 0 THEN Max(Len(s) + k, 0) ELSE Min(k, Len(s))
    IN  SubSeq(s, 1, stop)

\* Python's s[k:]
PySliceFrom(s, k) ==
    LET start == IF k < 0 THEN Max(Len(s) + k, 0) ELSE Min(k, Len(s))
    IN  SubSeq(s, start + 1, Len(s))

\* pandas Series.cumsum()
CumSum(s) == [t \in 1..Len(s) |-> SumSeq(SubSeq(s, 1, t))]

\* pandas DataFrame[names].sum(axis=1): the row sums over the named columns
RowSums(history, names, nrows) ==
    [t \in 1..nrows |-> SumSeq([i \in 1..Len(names) |-> history[names[i]][t]])]

\* ------------------------------------------------ _squash_authors_history
NoFrame == [columns |-> <<>>, data |-> <<>>, error |-> "not called"]

\* a rollup whose remainder starts one author early, so that the last of the
\* most productive authors is counted in both groups
SquashRestOverlaps(history, max_authors_count) ==
    LET most_productive_authors == PySliceTo(authors, max_authors_count)
        rest_authors == PySliceFrom(authors, max_authors_count - 1)
        most_productive_authors_history ==
            [n \in Range(most_productive_authors) |-> CumSum(history[n])]
        rest_authors_history == CumSum(RowSums(history, rest_authors, weeks))
    IN  [columns |-> IF "Others" \in Range(most_productive_authors)
                     THEN most_productive_authors
                     ELSE Append(most_productive_authors, "Others"),
         data    |-> [n \in Range(most_productive_authors) \cup {"Others"} |->
                         IF n = "Others" THEN rest_authors_history
                         ELSE most_productive_authors_history[n]],
         error   |-> "none"]

SquashAuthorsHistory(history, max_authors_count) ==
    LET most_productive_authors == PySliceTo(authors, max_authors_count)
        rest_authors == PySliceFrom(authors, max_authors_count)
        most_productive_authors_history ==
            [n \in Range(most_productive_authors) |-> CumSum(history[n])]
        rest_authors_history == CumSum(RowSums(history, rest_authors, weeks))
    IN  \* most_productive_authors_history['Others'] = ...: the assignment
        \* replaces a column of that name and appends one otherwise
        [columns |-> IF "Others" \in Range(most_productive_authors)
                     THEN most_productive_authors
                     ELSE Append(most_productive_authors, "Others"),
         data    |-> [n \in Range(most_productive_authors) \cup {"Others"} |->
                         IF n = "Others" THEN rest_authors_history
                         ELSE most_productive_authors_history[n]],
         error   |-> "none"]

Squash ==
    /\ "_squash_authors_history" \notin called
    /\ squashed' = SquashAuthorsHistory(authors_history, max_authors)
    /\ called' = called \cup {"_squash_authors_history"}
    /\ UNCHANGED <<authors, authors_history, weeks, max_authors, authors_page>>
    /\ UNCHANGED <<heatVars, tagsVars, pipeVars>>

\* ---------------------------------------------------- render_authors_page
NoPage == [top_authors |-> <<>>, non_top_authors |-> <<>>]

\* a partition that repeats the boundary author in both lists
AuthorsPartitionOverlap(all_authors, n) ==
    [top_authors     |-> PySliceTo(all_authors, n + 1),
     non_top_authors |-> IF Len(all_authors) > n
                         THEN PySliceFrom(all_authors, n) ELSE <<>>]

AuthorsPartition(all_authors, n) ==
    [top_authors     |-> PySliceTo(all_authors, n),
     non_top_authors |-> IF Len(all_authors) > n
                         THEN PySliceFrom(all_authors, n) ELSE <<>>]

RenderAuthorsPage ==
    /\ "render_authors_page" \notin called
    /\ authors_page' = AuthorsPartition(authors, max_authors)
    /\ called' = called \cup {"render_authors_page"}
    /\ UNCHANGED <<authors, authors_history, weeks, max_authors, squashed>>
    /\ UNCHANGED <<heatVars, tagsVars, pipeVars>>

\* -------------------------------------------------------------- to_heatmap
NoHeat == [index |-> 0, text |-> <<>>, error |-> "not called"]

RECURSIVE Gcd(_, _)
Gcd(a, b) == IF b = 0 THEN a ELSE Gcd(b, a % b)

RECURSIVE IsPowerOfTwo(_)
IsPowerOfTwo(n) == n = 1 \/ (n > 1 /\ n % 2 = 0 /\ IsPowerOfTwo(n \div 2))

\* int(float(v) / m * k) for v >= 0, m > 0, k >= 0. The quotient v/m is exact
\* in binary floating point when the reduced denominator is a power of two;
\* otherwise it is rounded, and where the exact product is an integer q >= 1
\* the float product is q or falls just below it, which int() truncates to
\* q - 1 (1/49*49 is 0.9999999999999999). v = m gives the quotient 1.0 and
\* the product k exactly.
FloatIndex(v, m, k, rounds_down) ==
    LET q == (v * k) \div m
        inexact == ~IsPowerOfTwo(m \div Gcd(v, m))
    IN  IF (v * k) % m = 0 /\ q >= 1 /\ v # m /\ inexact /\ rounds_down
        THEN q - 1 ELSE q

\* lambda val, max_val: "%d, %d, %d" % colors[int(float(val) / max_val * (len(colors) - 1))]
\* colors[i] of Python is colors[i + 1] here; the text "r, g, b" is kept as <<r, g, b>>
ToHeatmap(v, m) ==
    IF m = 0 THEN [index |-> 0, text |-> <<>>, error |-> "ZeroDivisionError"]
    ELSE LET index == FloatIndex(v, m, Len(colors) - 1, fp_rounds_down)
         IN  IF index >= Len(colors)
             THEN [index |-> index, text |-> <<>>, error |-> "IndexError"]
             ELSE [index |-> index, text |-> colors[index + 1], error |-> "none"]

Heatmap ==
    /\ "to_heatmap" \notin called
    /\ heat' = ToHeatmap(val, max_val)
    /\ called' = called \cup {"to_heatmap"}
    /\ UNCHANGED <<colors, val, max_val, fp_rounds_down>>
    /\ UNCHANGED <<authorsVars, tagsVars, pipeVars>>

\* ------------------------------------------------------- render_tags_page
NoTagsPage == [tags_count |-> 0, tags |-> <<>>]

\* tools.sort_keys_by_value_of_key(tags, 'date', reverse=True): the keys by
\* descending date, keys of one date in the dictionary's order
RECURSIVE KeysByDateDesc(_, _)
KeysByDateDesc(d, date) ==
    IF date < 1 THEN <<>>
    ELSE SelectSeq([i \in 1..Len(d) |-> i], LAMBDA k : d[k].date = date)
            \o KeysByDateDesc(d, date - 1)

sort_keys_by_value_of_key(d) == KeysByDateDesc(d, MaxDate)

\* the loop of render_tags_page from position i of the sorted keys on
RECURSIVE TagsLoop(_, _, _)
TagsLoop(tags_sorted_by_date_desc, i, listed) ==
    IF i > Len(tags_sorted_by_date_desc) THEN listed
    ELSE IF /\ "max_recent_tags" \in DOMAIN tags_configuration
            /\ tags_configuration["max_recent_tags"] <= Len(listed)
         THEN listed
         ELSE LET tag == tags_sorted_by_date_desc[i]
              IN  IF tags[tag].has_authors
                  THEN TagsLoop(tags_sorted_by_date_desc, i + 1,
                                Append(listed, [name |-> tag, date |-> tags[tag].date]))
                  ELSE TagsLoop(tags_sorted_by_date_desc, i + 1, listed)

\* a loop that stops on the number of tags visited, so that a tag without
\* authors counts towards the maximum
RECURSIVE TagsLoopCountingVisited(_, _, _)
TagsLoopCountingVisited(tags_sorted_by_date_desc, i, listed) ==
    IF i > Len(tags_sorted_by_date_desc) THEN listed
    ELSE IF /\ "max_recent_tags" \in DOMAIN tags_configuration
            /\ tags_configuration["max_recent_tags"] <= i - 1
         THEN listed
         ELSE LET tag == tags_sorted_by_date_desc[i]
              IN  IF tags[tag].has_authors
                  THEN TagsLoopCountingVisited(tags_sorted_by_date_desc, i + 1,
                                Append(listed, [name |-> tag, date |-> tags[tag].date]))
                  ELSE TagsLoopCountingVisited(tags_sorted_by_date_desc, i + 1, listed)

TagsProjectDataCountingVisited(d) ==
    [tags_count |-> Len(d),
     tags       |-> TagsLoopCountingVisited(sort_keys_by_value_of_key(d), 1, <<>>)]

TagsProjectData(d) ==
    [tags_count |-> Len(d),
     tags       |-> TagsLoop(sort_keys_by_value_of_key(d), 1, <<>>)]

RenderTagsPage ==
    /\ "render_tags_page" \notin called
    /\ tags_page' = TagsProjectData(tags)
    /\ called' = called \cup {"render_tags_page"}
    /\ UNCHANGED <<tags, tags_configuration>>
    /\ UNCHANGED <<authorsVars, heatVars, pipeVars>>

\* ------------------------------------------------------------------ create
Pages == {"general.html", "activity.html", "authors.html", "files.html",
          "tags.html", "about.html"}

Tabular == {"recent_activity.dat", "commits_by_year_month.dat", "commits_by_year.dat",
            "commits_by_author.dat", "lines_of_code_by_author.dat", "domains.dat",
            "files_by_date.dat", "lines_of_code.dat"}

Names == Pages \cup Tabular \cup {"index.html", "assets"}

Absent == [kind |-> "absent", target |-> "", data |-> <<>>]
File(data) == [kind |-> "file", target |-> "", data |-> data]
Link(target) == [kind |-> "symlink", target |-> target, data |-> <<>>]
Dir == [kind |-> "dir", target |-> "", data |-> <<>>]

\* the rows of the statistics model's history, one for each year with commits
RECURSIVE YearRows(_)
YearRows(y) ==
    IF y > MaxYear THEN <<>>
    ELSE (IF y \in commit_years THEN <<y>> ELSE <<>>) \o YearRows(y + 1)

\* What create() writes under a name: the text is kept as the values it is
\* made of. A page is rendered from the statistics model and the assets path,
\* general.html from the generation time too; commits_by_year_month.dat holds
\* the rows of the history whose year is the clock's (lines 105-108); every
\* other table holds rows of the statistics model.
Content(name) ==
    LET assets == IF assets_path = "relative" THEN <<1>> ELSE <<0>>
    IN  CASE name = "general.html" -> assets \o <<year>> \o YearRows(1)
          [] name \in Pages -> assets \o YearRows(1)
          [] name = "commits_by_year_month.dat" ->
                SelectSeq(YearRows(1), LAMBDA y : y = year)
          [] OTHER -> YearRows(1)

\* the steps of create(), each named by what it writes
CreateOrder ==
    <<"assets", "general.html", "index.html", "recent_activity.dat", "activity.html",
      "commits_by_year_month.dat", "commits_by_year.dat", "authors.html",
      "commits_by_author.dat", "lines_of_code_by_author.dat", "domains.dat",
      "files.html", "files_by_date.dat", "lines_of_code.dat", "tags.html",
      "about.html", "gnuplot">>

IndexOf(seq, x) == CHOOSE i \in 1..Len(seq) : seq[i] = x

\* an order that goes on to the charts right after the authors' tables
StepAfterChartsEarly(step) ==
    CASE step = "domains.dat" -> "gnuplot"
      [] step = "gnuplot" -> "scripts"
      [] OTHER -> CreateOrder[IndexOf(CreateOrder, step) + 1]

\* an order that leaves out domains.dat
StepAfterNoDomains(step) ==
    CASE step = "lines_of_code_by_author.dat" -> "files.html"
      [] step = "gnuplot" -> "scripts"
      [] OTHER -> CreateOrder[IndexOf(CreateOrder, step) + 1]

\* the step create() goes on with when a step has completed
StepAfter(step) ==
    IF step = "gnuplot" THEN "scripts"
    ELSE CreateOrder[IndexOf(CreateOrder, step) + 1]

Running(step) == status = "running" /\ pc = step

Completed(step) ==
    /\ trace' = Append(trace, step)
    /\ pc' = StepAfter(step)

\* with open(os.path.join(path, name), 'w') as f: f.write(...), and to_csv
Write(name) ==
    /\ Running(name)
    /\ fs' = [fs EXCEPT ![name] = File(Content(name))]
    /\ written' = written \cup {name}
    /\ Completed(name)
    /\ UNCHANGED <<year, assets_path, status, run, charts, before>>
    /\ UNCHANGED <<configVars, authorsVars, heatVars, tagsVars, called>>

\* lines 77-81 and _bundle_assets
BundleAssets ==
    /\ Running("assets")
    /\ IF relocatable
       THEN /\ fs' = [fs EXCEPT !["assets"] = Dir]
            /\ written' = written \cup {"assets"}
            /\ assets_path' = "relative"
       ELSE UNCHANGED <<fs, written, assets_path>>
    /\ Completed("assets")
    /\ UNCHANGED <<year, status, run, charts, before>>
    /\ UNCHANGED <<configVars, authorsVars, heatVars, tagsVars, called>>

WriteGeneralHtml == Write("general.html")

\* a symlink call whose FileExistsError is not caught
SymlinkUncaught(entry) ==
    IF entry.kind = "absent"
    THEN [entry |-> Link("general.html"), created |-> TRUE, raised |-> FALSE]
    ELSE [entry |-> entry, created |-> FALSE, raised |-> TRUE]

\* try: os.symlink("general.html", index.html) except FileExistsError: pass
Symlink(entry) ==
    IF entry.kind = "absent"
    THEN [entry |-> Link("general.html"), created |-> TRUE, raised |-> FALSE]
    ELSE [entry |-> entry, created |-> FALSE, raised |-> FALSE]

MakeLandingPage ==
    /\ Running("index.html")
    /\ LET made == Symlink(fs["index.html"])
       IN  IF made.raised
           THEN /\ status' = "raised"
                /\ UNCHANGED <<fs, written, trace, pc>>
           ELSE /\ fs' = [fs EXCEPT !["index.html"] = made.entry]
                /\ written' = IF made.created THEN written \cup {"index.html"} ELSE written
                /\ Completed("index.html")
                /\ UNCHANGED status
    /\ UNCHANGED <<year, assets_path, run, charts, before>>
    /\ UNCHANGED <<configVars, authorsVars, heatVars, tagsVars, called>>

SaveRecentActivityData == Write("recent_activity.dat")
WriteActivityHtml == Write("activity.html")
WriteCommitsByYearMonth == Write("commits_by_year_month.dat")
WriteCommitsByYear == Write("commits_by_year.dat")
WriteAuthorsHtml == Write("authors.html")
WriteCommitsByAuthor == Write("commits_by_author.dat")
WriteLinesOfCodeByAuthor == Write("lines_of_code_by_author.dat")
WriteDomains == Write("domains.dat")
WriteFilesHtml == Write("files.html")
WriteFilesByDate == Write("files_by_date.dat")
WriteLinesOfCode == Write("lines_of_code.dat")

\* if self.has_tags_page: ...
WriteTagsHtml ==
    /\ Running("tags.html")
    /\ IF has_tags_page
       THEN /\ fs' = [fs EXCEPT !["tags.html"] = File(Content("tags.html"))]
            /\ written' = written \cup {"tags.html"}
       ELSE UNCHANGED <<fs, written>>
    /\ Completed("tags.html")
    /\ UNCHANGED <<year, assets_path, status, run, charts, before>>
    /\ UNCHANGED <<configVars, authorsVars, heatVars, tagsVars, called>>

WriteAboutHtml == Write("about.html")

\* process_gnuplot_scripts: glob.glob and os.chdir
EnterGnuplot ==
    /\ Running("gnuplot")
    /\ Completed("gnuplot")
    /\ UNCHANGED <<year, fs, assets_path, status, run, written, charts, before>>
    /\ UNCHANGED <<configVars, authorsVars, heatVars, tagsVars, called>>

\* tools.shellhelper.get_pipe_output([gnuplot_command]): the command's exit
\* status and what it printed. A command that fails says why; one that
\* succeeds may print a warning. The call returns the text and raises nothing.
get_pipe_output == {[exit |-> 0, out |-> ""],
                    [exit |-> 0, out |-> "diagnostic"],
                    [exit |-> 1, out |-> "diagnostic"]}

\* scripts = glob.glob(os.path.join(scripts_path, '*.plot')), numbered in
\* the order glob returns them
Scripts == [i \in 1..MaxScripts |-> i]

\* a loop that gives up at the first script that printed something
LoopOverAtDiagnostic ==
    \/ Len(charts) = Len(Scripts)
    \/ (charts # <<>> /\ charts[Len(charts)].out # "")

\* for script in scripts: no script is left
LoopOver == Len(charts) = Len(Scripts)

\* one turn of the loop: the next script is run, and what it printed is
\* printed when it is not empty
RunScript ==
    /\ Running("scripts")
    /\ ~LoopOver
    /\ \E result \in get_pipe_output :
          charts' = Append(charts, [script  |-> Scripts[Len(charts) + 1],
                                    exit    |-> result.exit,
                                    out     |-> result.out,
                                    printed |-> Len(result.out) > 0])
    /\ UNCHANGED <<year, fs, assets_path, pc, status, run, trace, written, before>>
    /\ UNCHANGED <<configVars, authorsVars, heatVars, tagsVars, called>>

\* the loop is over and create() returns
Return ==
    /\ Running("scripts")
    /\ LoopOver
    /\ status' = "done"
    /\ UNCHANGED <<year, fs, assets_path, pc, run, trace, written, charts, before>>
    /\ UNCHANGED <<configVars, authorsVars, heatVars, tagsVars, called>>

\* create() catches nothing but FileExistsError: an exception of a rendering
\* call, of open(), of copy_tree, of os.symlink on a path where nothing exists
\* or of os.chdir leaves create() at the step that raised it
Raise ==
    /\ status = "running"
    /\ pc # "scripts"
    /\ pc = "index.html" => fs["index.html"].kind = "absent"
    /\ pc = "assets" => relocatable
    /\ pc = "tags.html" => has_tags_page
    /\ status' = "raised"
    /\ UNCHANGED <<year, fs, assets_path, pc, run, trace, written, charts, before>>
    /\ UNCHANGED <<configVars, authorsVars, heatVars, tagsVars, called>>

\* the program is started again on the same output path with the same
\* configuration and statistics model; the clock has not gone back
RunAgain ==
    /\ status \in {"done", "raised"}
    /\ run < MaxRuns
    /\ run' = run + 1
    /\ year' \in year..MaxYear
    /\ before' = [fs |-> fs, outcome |-> status, year |-> year]
    /\ pc' = "assets"
    /\ status' = "running"
    /\ assets_path' = "absolute"
    /\ trace' = <<>>
    /\ written' = {}
    /\ charts' = <<>>
    /\ UNCHANGED fs
    /\ UNCHANGED <<configVars, authorsVars, heatVars, tagsVars, called>>

\* ---------------------------------------------------------- specifications
IdleAuthors ==
    /\ authors = <<>>
    /\ weeks = 0
    /\ authors_history = <<>>
    /\ max_authors = 0
    /\ squashed = NoFrame
    /\ authors_page = NoPage

IdleHeatmap ==
    /\ colors = <<>>
    /\ val = 0
    /\ max_val = 0
    /\ fp_rounds_down = FALSE
    /\ heat = NoHeat

IdleTags ==
    /\ tags = <<>>
    /\ tags_configuration = <<>>
    /\ tags_page = NoTagsPage

IdlePipeline ==
    /\ relocatable = FALSE
    /\ has_tags_page = FALSE
    /\ commit_years = {}
    /\ year = 1
    /\ fs = [n \in Names |-> Absent]
    /\ assets_path = "absolute"
    /\ pc = "assets"
    /\ status = "idle"
    /\ run = 0
    /\ trace = <<>>
    /\ written = {}
    /\ charts = <<>>
    /\ before = [fs |-> [n \in Names |-> Absent], outcome |-> "none", year |-> 1]

vars == <<authorsVars, heatVars, tagsVars, pipeVars, called>>

\* the first run on an empty output path
Init ==
    /\ relocatable \in BOOLEAN
    /\ has_tags_page \in BOOLEAN
    /\ commit_years \in SUBSET (1..MaxYear)
    /\ year \in 1..MaxYear
    /\ fs = [n \in Names |-> Absent]
    /\ assets_path = "absolute"
    /\ pc = "assets"
    /\ status = "running"
    /\ run = 1
    /\ trace = <<>>
    /\ written = {}
    /\ charts = <<>>
    /\ before = [fs |-> fs, outcome |-> "none", year |-> year]
    /\ called = {}
    /\ IdleAuthors /\ IdleHeatmap /\ IdleTags

Next ==
    \/ BundleAssets \/ WriteGeneralHtml \/ MakeLandingPage
    \/ SaveRecentActivityData \/ WriteActivityHtml
    \/ WriteCommitsByYearMonth \/ WriteCommitsByYear
    \/ WriteAuthorsHtml \/ WriteCommitsByAuthor \/ WriteLinesOfCodeByAuthor
    \/ WriteDomains
    \/ WriteFilesHtml \/ WriteFilesByDate \/ WriteLinesOfCode
    \/ WriteTagsHtml \/ WriteAboutHtml
    \/ EnterGnuplot \/ RunScript \/ Return
    \/ Raise \/ RunAgain

Spec == Init /\ [][Next]_vars


AuthorLists ==
    {Pick(RankedNames, S, 1) :
        S \in {T \in SUBSET (1..Len(RankedNames)) : Cardinality(T) <= MaxAuthors}}

InitAuthors ==
    /\ authors \in AuthorLists
    /\ weeks \in 0..MaxWeeks
    /\ authors_history \in [Range(authors) -> [1..weeks -> Counts]]
    /\ max_authors \in (-1)..(MaxAuthors + 1)
    /\ squashed = NoFrame
    /\ authors_page = NoPage
    /\ called = {}
    /\ IdleHeatmap /\ IdleTags /\ IdlePipeline

NextAuthors == Squash \/ RenderAuthorsPage

SpecAuthors == InitAuthors /\ [][NextAuthors]_vars

\* a palette of n grey levels
Palette(n) == [i \in 1..n |-> <<i - 1, i - 1, i - 1>>]

InitHeatmap ==
    /\ colors \in {Palette(n) : n \in 1..MaxColors}
    /\ val \in 0..MaxCommits
    /\ max_val \in 0..MaxCommits
    /\ fp_rounds_down \in BOOLEAN
    /\ heat = NoHeat
    /\ called = {}
    /\ IdleAuthors /\ IdleTags /\ IdlePipeline

NextHeatmap == Heatmap

SpecHeatmap == InitHeatmap /\ [][NextHeatmap]_vars

InitTags ==
    /\ \E n \in 0..MaxTags :
          tags \in [1..n -> [date : 1..MaxDate, has_authors : BOOLEAN]]
    /\ tags_configuration \in
          {<<>>} \cup {[max_recent_tags |-> m] : m \in 0..MaxTags}
    /\ tags_page = NoTagsPage
    /\ called = {}
    /\ IdleAuthors /\ IdleHeatmap /\ IdlePipeline

NextTags == RenderTagsPage

SpecTags == InitTags /\ [][NextTags]_vars

\* ---------------------------------------------------- claims: SpecAuthors
SquashCalled == "_squash_authors_history" \in called

\* the first k names of the ranked list, and the names after them
FirstNames(k) == [i \in 1..Min(k, Len(authors)) |-> authors[i]]
NamesAfter(k) ==
    [i \in 1..(Len(authors) - Min(k, Len(authors))) |-> authors[i + Min(k, Len(authors))]]

\* the cumulative total, up to week t, of all contributors' values
CumulativeTotal(t) ==
    SumSeq([u \in 1..t |-> SumSeq([i \in 1..Len(authors) |-> authors_history[authors[i]][u]])])

\* the sum over the top-K contributors of their value in the rollup at week t
TopSum(t) ==
    LET top == FirstNames(max_authors)
    IN  SumSeq([i \in 1..Len(top) |-> squashed.data[top[i]][t]])

\* C1: for every contributor series and every topK >= 0, at every time index
\* the top-K contributors' cumulative values plus the Others cumulative value
\* equal the cumulative total of all contributors' values.
C1_RollupSum ==
    (SquashCalled /\ max_authors >= 0) =>
        \A t \in 1..weeks : TopSum(t) + squashed.data["Others"][t] = CumulativeTotal(t)

\* The sum of C1 where none of the top-K contributors is named like the
\* synthetic column (not a claim of the list; it shows what C1 fails on).
RollupSumWithoutNameClash ==
    (SquashCalled /\ max_authors >= 0 /\ "Others" \notin Range(FirstNames(max_authors))) =>
        \A t \in 1..weeks : TopSum(t) + squashed.data["Others"][t] = CumulativeTotal(t)

\* C2: with topK >= the number of contributors (the empty series included)
\* the rollup still has an Others series, and it is zero at every time index.
C2_OthersZero ==
    (SquashCalled /\ max_authors >= Len(authors)) =>
        /\ "Others" \in Range(squashed.columns)
        /\ "Others" \in DOMAIN squashed.data
        /\ DOMAIN squashed.data["Others"] = 1..weeks
        /\ \A t \in 1..weeks : squashed.data["Others"][t] = 0

C2_Witness ==
    /\ SquashCalled
    /\ max_authors = Len(authors)
    /\ Len(authors) = 2
    /\ weeks = 2
    /\ \A n \in Range(authors) : authors_history[n] = <<1, 1>>
    /\ squashed.data["Others"] = <<0, 0>>

\* C3: the rollup rejects a negative topK: it signals InvalidArgument and
\* produces no result.
C3_NegativeTopKRejected ==
    (SquashCalled /\ max_authors < 0) =>
        /\ squashed.error = "InvalidArgument"
        /\ squashed.columns = <<>>

\* C9: the ranked author list is partitioned without re-ranking: top_authors
\* is the first max_authors names in order, non_top_authors the remaining
\* names in order; the lists are disjoint and their concatenation is the
\* ranked list.
C9_AuthorsPartition ==
    "render_authors_page" \in called =>
        /\ max_authors >= 0 =>
              /\ authors_page.top_authors = FirstNames(max_authors)
              /\ authors_page.non_top_authors = NamesAfter(max_authors)
        /\ authors_page.top_authors \o authors_page.non_top_authors = authors
        /\ Range(authors_page.top_authors) \cap Range(authors_page.non_top_authors) = {}

C9_Witness ==
    /\ "render_authors_page" \in called
    /\ authors = <<"alice", "bob", "carl">>
    /\ max_authors = 2
    /\ authors_page.top_authors = <<"alice", "bob">>
    /\ authors_page.non_top_authors = <<"carl">>

\* ---------------------------------------------------- claims: SpecHeatmap
HeatmapCalled == "to_heatmap" \in called

\* C4: the color mapping is total at max == 0: for any value it returns the
\* palette's first entry and raises no error; and for any max > 0 the color
\* of the value 0 is the palette's first entry.
C4_TotalAtZeroMax ==
    HeatmapCalled =>
        /\ max_val = 0 => (heat.error = "none" /\ heat.text = colors[1])
        /\ (max_val > 0 /\ val = 0) => (heat.error = "none" /\ heat.text = colors[1])

\* C5: for every max > 0 and every value >= 0, value > max included, the
\* palette index used lies in [0, len(palette) - 1], and the color of
\* value = max is the palette's last entry.
C5_IndexInRange ==
    (HeatmapCalled /\ max_val > 0) =>
        /\ heat.error = "none"
        /\ heat.index \in 0..(Len(colors) - 1)
        /\ val = max_val => heat.text = colors[Len(colors)]

\* ------------------------------------------------------- claims: SpecTags
TagsCalled == "render_tags_page" \in called

Listed == {tags_page.tags[i].name : i \in 1..Len(tags_page.tags)}

HasMax == "max_recent_tags" \in DOMAIN tags_configuration

\* C8: the tags page lists exactly the tags that have author records, in
\* descending tag-date order, limited to the first max_recent_tags of them
\* when that maximum is configured: a tag without authors never appears and
\* does not count towards the maximum, and the list never holds more than
\* max_recent_tags entries.
C8_TagsListed ==
    TagsCalled =>
        LET list == tags_page.tags IN
        /\ \A i \in 1..Len(list) :
              /\ list[i].name \in 1..Len(tags)
              /\ tags[list[i].name].has_authors
              /\ list[i].date = tags[list[i].name].date
        /\ \A i, j \in 1..Len(list) :
              i < j => (list[i].name # list[j].name /\ list[i].date >= list[j].date)
        /\ HasMax => Len(list) <= tags_configuration["max_recent_tags"]
        /\ \A k \in 1..Len(tags) :
              (tags[k].has_authors /\ k \notin Listed) =>
                  /\ HasMax
                  /\ Len(list) = tags_configuration["max_recent_tags"]
                  /\ \A i \in 1..Len(list) : list[i].date >= tags[k].date

\* the newest tag has no authors, the maximum is 1, and the one tag listed is
\* the newer of the two tags that have authors
C8_Witness ==
    /\ TagsCalled
    /\ Len(tags) = 3
    /\ tags[2] = [date |-> 2, has_authors |-> FALSE]
    /\ tags[1] = [date |-> 1, has_authors |-> TRUE]
    /\ tags[3] = [date |-> 1, has_authors |-> TRUE]
    /\ HasMax /\ tags_configuration["max_recent_tags"] = 1
    /\ tags_page.tags = <<[name |-> 1, date |-> 1]>>

\* ----------------------------------------------------------- claims: Spec
\* the artifacts of the catalog that every run has to produce
Catalog == (Pages \ {"tags.html"}) \cup Tabular \cup {"index.html"}

DataArtifacts == Catalog \ {"index.html"}

\* C7, as claimed: when create() completes without error every artifact of
\* the catalog, the index.html alias included, has been written during that
\* run, and tags.html is written if and only if tag processing is enabled.
C7_AllWrittenInRun ==
    status = "done" =>
        /\ Catalog \subseteq written
        /\ "tags.html" \in written <=> has_tags_page

\* C7, amended: when create() completes without error every artifact of the
\* catalog other than the index.html alias has been written during that run,
\* and tags.html if and only if tag processing is enabled; index.html is
\* created during the run, as a link to general.html, if and only if nothing
\* of that name existed when the run began, and is otherwise left as it was.
C7_CatalogWritten ==
    status = "done" =>
        /\ DataArtifacts \subseteq written
        /\ \A f \in DataArtifacts : fs[f].kind = "file"
        /\ "tags.html" \in written <=> has_tags_page
        /\ "index.html" \in written <=> before.fs["index.html"].kind = "absent"
        /\ "index.html" \in written => fs["index.html"] = Link("general.html")
        /\ "index.html" \notin written => fs["index.html"] = before.fs["index.html"]

\* a second run with tags enabled has completed on the alias the first made
C7_Witness ==
    /\ status = "done"
    /\ run = 2
    /\ has_tags_page
    /\ "tags.html" \in written
    /\ "index.html" \notin written
    /\ fs["index.html"] = Link("general.html")

Effects ==
    SelectSeq(trace, LAMBDA step : step \in written \cup {"index.html", "gnuplot"})

ExpectedEffects ==
    (IF relocatable THEN <<"assets">> ELSE <<>>)
    \o <<"general.html", "index.html", "recent_activity.dat", "activity.html",
         "commits_by_year_month.dat", "commits_by_year.dat", "authors.html",
         "commits_by_author.dat", "lines_of_code_by_author.dat", "domains.dat",
         "files.html", "files_by_date.dat", "lines_of_code.dat">>
    \o (IF has_tags_page THEN <<"tags.html">> ELSE <<>>)
    \o <<"about.html", "gnuplot">>

\* C10: in every run the chart engine is not invoked before all tabular
\* artifacts of that run have been written; the steps run in the order
\* general, alias, activity, authors, files, tags (if enabled), about, chart
\* rendering; and when a step raises an error no chart invocation happens
\* and the artifacts of the completed steps remain on disk.
C10_ChartsLast ==
    /\ Len(Effects) <= Len(ExpectedEffects)
    /\ Effects = SubSeq(ExpectedEffects, 1, Len(Effects))
    /\ charts # <<>> =>
          /\ Tabular \subseteq written
          /\ \A f \in Tabular : fs[f] = File(Content(f))
          /\ Effects = ExpectedEffects
    /\ status = "raised" =>
          /\ charts = <<>>
          /\ \A f \in written \ {"index.html", "assets"} : fs[f] = File(Content(f))
          /\ "index.html" \in written => fs["index.html"] = Link("general.html")

\* the first run raised at files.html and left the authors' tables behind;
\* the second run has invoked every chart script
C10_Witness ==
    /\ run = 2
    /\ before.outcome = "raised"
    /\ before.fs["domains.dat"].kind = "file"
    /\ before.fs["files.html"].kind = "absent"
    /\ Len(charts) = MaxScripts
    /\ Tabular \subseteq written

\* C11: in the chart-rendering step every chart script of the script
\* directory is invoked exactly once, one at a time, in the order found: a
\* failure or a diagnostic of one invocation does not prevent the invocation
\* of the remaining scripts (the loop can always go on to the next script, it
\* raises nothing, and what a script printed is printed), and create() does
\* not return before every script has been invoked and returns successfully.
C11_EveryScriptOnce ==
    /\ Len(charts) <= Len(Scripts)
    /\ \A i \in 1..Len(charts) :
          /\ charts[i].script = Scripts[i]
          /\ charts[i].printed <=> charts[i].out # ""
    /\ pc = "scripts" => status \in {"running", "done"}
    /\ (status = "running" /\ pc = "scripts" /\ Len(charts) < Len(Scripts)) =>
          ENABLED RunScript
    /\ status = "done" => Len(charts) = Len(Scripts)

\* the first script failed, and create() has returned after the last one
C11_Witness ==
    /\ status = "done"
    /\ Len(charts) = Len(Scripts)
    /\ Len(charts) >= 2
    /\ charts[1].exit = 1
    /\ charts[1].printed
    /\ charts[Len(charts)].script = Scripts[Len(Scripts)]

====
